---- MODULE Spec2Model ----
\* Model of src/src/sh.rs: dispatch() forks; the child attempts to spawn the
\* command and reports the outcome through its exit code; the parent waits
\* for the child and decodes the exit code into a nix::Result<()>.
EXTENDS Integers, Sequences, FiniteSets, TLC

VARIABLES
    parent,      \* position of the caller inside dispatch(): "start", "wait", "returned"
    forkres,     \* what fork() returned to the caller
    child,       \* the forked process: "none", "forked", "spawned", "exited", "signaled"
    stopped,     \* the forked process is stopped (job control / tracing)
    pendingStop, \* a stop of the forked process not yet reported by waitpid
    spawn,       \* what command.spawn() returned in the child
    code,        \* the i32 the child passed to process::exit
    termsig,     \* the signal that killed the child, 0 when none
    ws,          \* what the last waitpid() of the parent returned
    result,      \* what dispatch() returned to the caller
    waits,       \* number of waitpid() calls of the parent
    others,      \* number of non-terminal wait statuses the parent skipped
    decodes,     \* number of exit codes the parent decoded
    nchildren,   \* number of processes fork() created
    stops,       \* number of times the child was stopped
    prog,        \* the dispatched program: "none", "running", "done"
    spawns,      \* number of command.spawn() calls of the child
    exits,       \* number of process::exit calls of the child
    returns      \* number of times dispatch() returned to a caller, in either process

vars == <<parent, forkres, child, stopped, pendingStop, spawn, code, termsig,
          ws, result, waits, others, decodes, nchildren, stops,
          prog, spawns, exits, returns>>

----------------------------------------------------------------------------
\* Bounds of the model.

\* how often the environment stops the child during one call
MaxStops == 2
\* cap on the waitpid() calls of one dispatch call
MaxWaits == 4
\* the decode step is checked on the codes -MaxNegCode..MaxCode
MaxNegCode == 40
MaxCode == 270

----------------------------------------------------------------------------
\* The platform (Linux): error numbers, signals, exit statuses.

\* The numbers nix::errno::Errno has a variant for: EPERM (1) .. EHWPOISON
\* (133); 41 and 58 are aliases (EWOULDBLOCK, EDEADLOCK) and have none.
PlatformErrnos == (1..133) \ {41, 58}
\* Errno::UnknownErrno is the variant with discriminant 0.
UnknownErrno == 0
EINTR == 4
ECHILD == 10
\* errors fork() fails with: EAGAIN, ENOMEM
ForkErrnos == {11, 12}
\* signals that terminate the child: SIGKILL, SIGSEGV, SIGTERM
Signals == {9, 11, 15}

\* nix::Result<()>
Ok == [tag |-> "Ok", errno |-> 0]
ErrSys(e) == [tag |-> "Err", errno |-> e]
NoResult == [tag |-> "None", errno |-> 0]

\* Option<i32>, the value of io::Error::raw_os_error()
None == <<>>
Some(n) == <<n>>

\* io::Result<Child>, the value of command.spawn()
SpawnOk == [tag |-> "Ok", raw |-> None]
SpawnErr(raw) == [tag |-> "Err", raw |-> raw]
SpawnPending == [tag |-> "Pending", raw |-> None]
\* what spawn() can return: success, a platform error, an error without number
SpawnOutcomes ==
    {SpawnOk, SpawnErr(None)} \cup {SpawnErr(Some(e)) : e \in PlatformErrnos}

\* WaitStatus, or the error of waitpid()
Exited(ec) == [kind |-> "Exited", v |-> ec]
Signaled(sig) == [kind |-> "Signaled", v |-> sig]
Stopped == [kind |-> "Stopped", v |-> 0]
WaitErr(e) == [kind |-> "Err", v |-> e]
NoWait == [kind |-> "None", v |-> 0]

\* nix::errno::from_i32: the variant of a number that has one, UnknownErrno
\* for every other number.
from_i32(n) == IF n \in PlatformErrnos THEN n ELSE UnknownErrno

\* The exit status a waiting parent sees of a child that called exit(c):
\* the low 8 bits of c.
ExitStatus_untruncated(c) == c
ExitStatus(c) == c % 256

----------------------------------------------------------------------------
\* ExitProtocol and its conversions (sh.rs 19-44).

ExitProtocol(n) == [code |-> n]

\* impl From<io::Error> for ExitProtocol; error is the raw_os_error() option
FromIoError_negated(raw) ==
    IF raw # None THEN ExitProtocol(0 - raw[1]) ELSE ExitProtocol(-1)
FromIoError_zero(raw) ==
    IF raw # None THEN ExitProtocol(raw[1]) ELSE ExitProtocol(0)
FromIoError(raw) ==
    IF raw # None THEN ExitProtocol(raw[1]) ELSE ExitProtocol(-1)

\* impl Into<i32> for ExitProtocol
IntoI32(p) == p.code

\* impl Into<nix::Result<()>> for ExitProtocol
IntoResult_nonneg(p) ==
    IF p.code <= 0 THEN Ok ELSE ErrSys(from_i32(p.code))
IntoResult(p) ==
    IF p.code < 0 THEN ErrSys(UnknownErrno)
    ELSE IF p.code = 0 THEN Ok
    ELSE ErrSys(from_i32(p.code))

----------------------------------------------------------------------------
\* dispatch_child (sh.rs 49-54): the code the child passes to process::exit.
dispatch_child_always0(sp) == IntoI32(ExitProtocol(0))
dispatch_child_ok1(sp) ==
    IF sp.tag = "Ok" THEN IntoI32(ExitProtocol(1))
    ELSE IntoI32(FromIoError(sp.raw))
dispatch_child(sp) ==
    IF sp.tag = "Ok" THEN IntoI32(ExitProtocol(0))
    ELSE IntoI32(FromIoError(sp.raw))

\* dispatch_child has type `!`: whether the arm taken on sp ends in
\* process::exit (both arms do) instead of returning to the caller.
dispatch_child_diverges_okonly(sp) == sp.tag = "Ok"
dispatch_child_diverges(sp) == TRUE

\* command.spawn() starts the program and returns; the Child handle is
\* dropped without wait(): whether the child goes on to process::exit when
\* the program it started is in state pr.
spawn_detached_waits(sp, pr) == sp.tag = "Ok" => pr = "done"
spawn_detached(sp, pr) == TRUE

INTERRUPTED == ErrSys(EINTR)

\* dispatch_parent (sh.rs 59-71): one turn of the loop on the value w of
\* waitpid(): whether the loop ends, with which result, and whether an exit
\* code was decoded.
dispatch_parent_decode_other(w) ==
    IF w.kind = "Err" THEN [done |-> TRUE, res |-> ErrSys(w.v), decoded |-> FALSE]
    ELSE IF w.kind = "Signaled" THEN [done |-> TRUE, res |-> INTERRUPTED, decoded |-> FALSE]
    ELSE [done |-> TRUE, res |-> IntoResult(ExitProtocol(w.v)), decoded |-> TRUE]
dispatch_parent_redecode(w) ==
    IF w.kind = "Err" THEN [done |-> TRUE, res |-> ErrSys(w.v), decoded |-> FALSE]
    ELSE IF w.kind = "Exited" THEN [done |-> FALSE, res |-> NoResult, decoded |-> TRUE]
    ELSE IF w.kind = "Signaled" THEN [done |-> TRUE, res |-> INTERRUPTED, decoded |-> FALSE]
    ELSE [done |-> FALSE, res |-> NoResult, decoded |-> FALSE]
dispatch_parent_peeks(w) ==
    IF w.kind = "Err" THEN [done |-> TRUE, res |-> ErrSys(w.v), decoded |-> FALSE]
    ELSE IF w.kind = "Exited" THEN [done |-> TRUE, res |-> IntoResult(ExitProtocol(w.v)), decoded |-> TRUE]
    ELSE IF w.kind = "Signaled"
         THEN [done |-> TRUE, res |-> IF spawn.tag = "Ok" THEN Ok ELSE INTERRUPTED, decoded |-> FALSE]
    ELSE [done |-> FALSE, res |-> NoResult, decoded |-> FALSE]
dispatch_parent_retry(w) ==
    IF w.kind = "Err" /\ w.v # EINTR THEN [done |-> TRUE, res |-> ErrSys(w.v), decoded |-> FALSE]
    ELSE IF w.kind = "Exited" THEN [done |-> TRUE, res |-> IntoResult(ExitProtocol(w.v)), decoded |-> TRUE]
    ELSE IF w.kind = "Signaled" THEN [done |-> TRUE, res |-> INTERRUPTED, decoded |-> FALSE]
    ELSE [done |-> FALSE, res |-> NoResult, decoded |-> FALSE]
dispatch_parent_sigdecode(w) ==
    IF w.kind = "Err" THEN [done |-> TRUE, res |-> ErrSys(w.v), decoded |-> FALSE]
    ELSE IF w.kind \in {"Exited", "Signaled"}
         THEN [done |-> TRUE, res |-> IntoResult(ExitProtocol(w.v)), decoded |-> TRUE]
    ELSE [done |-> FALSE, res |-> NoResult, decoded |-> FALSE]
dispatch_parent_nonterminal(w) ==
    IF w.kind = "Err" THEN [done |-> TRUE, res |-> ErrSys(w.v), decoded |-> FALSE]
    ELSE IF w.kind = "Exited" THEN [done |-> TRUE, res |-> IntoResult(ExitProtocol(w.v)), decoded |-> TRUE]
    ELSE [done |-> TRUE, res |-> INTERRUPTED, decoded |-> FALSE]
dispatch_parent(w) ==
    IF w.kind = "Err" THEN [done |-> TRUE, res |-> ErrSys(w.v), decoded |-> FALSE]
    ELSE IF w.kind = "Exited" THEN [done |-> TRUE, res |-> IntoResult(ExitProtocol(w.v)), decoded |-> TRUE]
    ELSE IF w.kind = "Signaled" THEN [done |-> TRUE, res |-> INTERRUPTED, decoded |-> FALSE]
    ELSE [done |-> FALSE, res |-> NoResult, decoded |-> FALSE]

\* dispatch (sh.rs 84-89): the match on fork()?; fr is what fork() returned.
\* An error returns at once; the parent goes on to dispatch_parent.
dispatch_forkerr_ignored(fr) ==
    [next |-> "wait", res |-> NoResult]
dispatch(fr) ==
    IF fr.kind = "Err" THEN [next |-> "returned", res |-> ErrSys(fr.v)]
    ELSE [next |-> "wait", res |-> NoResult]

ForkParent == [kind |-> "Parent", v |-> 0]
ForkErr(e) == [kind |-> "Err", v |-> e]
NoFork == [kind |-> "None", v |-> 0]

----------------------------------------------------------------------------
Alive == child \in {"forked", "spawned"}
Terminated == child \in {"exited", "signaled"}

Init ==
    /\ parent = "start"
    /\ forkres = NoFork
    /\ child = "none"
    /\ stopped = FALSE
    /\ pendingStop = FALSE
    /\ spawn = SpawnPending
    /\ code = 0
    /\ termsig = 0
    /\ ws = NoWait
    /\ result = NoResult
    /\ waits = 0
    /\ others = 0
    /\ decodes = 0
    /\ nchildren = 0
    /\ stops = 0
    /\ prog = "none"
    /\ spawns = 0
    /\ exits = 0
    /\ returns = 0

\* dispatch() up to the match on fork()?, fork() having returned fr
Fork(fr) ==
    /\ parent = "start"
    /\ forkres' = fr
    /\ parent' = dispatch(fr).next
    /\ result' = dispatch(fr).res
    /\ IF fr.kind = "Parent"
       THEN child' = "forked" /\ nchildren' = nchildren + 1
       ELSE UNCHANGED <<child, nchildren>>
    /\ returns' = IF dispatch(fr).next = "returned" THEN returns + 1 ELSE returns
    /\ UNCHANGED <<stopped, pendingStop, spawn, code, termsig, ws, waits,
                   others, decodes, stops, prog, spawns, exits>>

ForkSucceeds == Fork(ForkParent)
ForkFails == \E e \in ForkErrnos : Fork(ForkErr(e))

\* the child: command.spawn() returns
ChildSpawn ==
    /\ child = "forked" /\ ~stopped
    /\ \E sp \in SpawnOutcomes :
          /\ spawn' = sp
          /\ prog' = IF sp.tag = "Ok" THEN "running" ELSE prog
    /\ spawns' = spawns + 1
    /\ child' = "spawned"
    /\ UNCHANGED <<parent, forkres, stopped, pendingStop, code, termsig, ws,
                   result, waits, others, decodes, nchildren, stops, exits,
                   returns>>

\* the child: the arm of the match on the value of spawn(), process::exit(..)
ChildExit ==
    /\ child = "spawned" /\ ~stopped
    /\ spawn_detached(spawn, prog)
    /\ IF dispatch_child_diverges(spawn)
       THEN /\ code' = dispatch_child(spawn)
            /\ child' = "exited"
            /\ exits' = exits + 1
            /\ returns' = returns
       ELSE /\ child' = "returned"
            /\ returns' = returns + 1
            /\ UNCHANGED <<code, exits>>
    /\ pendingStop' = FALSE
    /\ UNCHANGED <<parent, forkres, stopped, spawn, termsig, ws, result,
                   waits, others, decodes, nchildren, stops, prog, spawns>>

\* the environment kills the child before it exits
ChildKilled ==
    /\ Alive
    /\ \E sig \in Signals : termsig' = sig
    /\ child' = "signaled"
    /\ stopped' = FALSE
    /\ pendingStop' = FALSE
    /\ UNCHANGED <<parent, forkres, spawn, code, ws, result, waits, others,
                   decodes, nchildren, stops, prog, spawns, exits, returns>>

\* the environment stops the (traced) child
ChildStop ==
    /\ Alive /\ ~stopped /\ stops < MaxStops
    /\ stopped' = TRUE
    /\ pendingStop' = TRUE
    /\ stops' = stops + 1
    /\ UNCHANGED <<parent, forkres, child, spawn, code, termsig, ws, result,
                   waits, others, decodes, nchildren, prog, spawns, exits,
                   returns>>

\* the environment resumes the child
ChildCont ==
    /\ Alive /\ stopped
    /\ stopped' = FALSE
    /\ pendingStop' = FALSE
    /\ UNCHANGED <<parent, forkres, child, spawn, code, termsig, ws, result,
                   waits, others, decodes, nchildren, stops, prog, spawns,
                   exits, returns>>

\* one turn of the loop of dispatch_parent, waitpid() having returned w
ParentTurn(w) ==
    /\ parent = "wait" /\ waits < MaxWaits
    /\ ws' = w
    /\ waits' = waits + 1
    /\ parent' = IF dispatch_parent(w).done THEN "returned" ELSE "wait"
    /\ result' = IF dispatch_parent(w).done THEN dispatch_parent(w).res ELSE result
    /\ decodes' = IF dispatch_parent(w).decoded THEN decodes + 1 ELSE decodes
    /\ others' = IF dispatch_parent(w).done THEN others ELSE others + 1
    /\ pendingStop' = IF w.kind = "Stopped" THEN FALSE ELSE pendingStop
    /\ returns' = IF dispatch_parent(w).done THEN returns + 1 ELSE returns
    /\ UNCHANGED <<forkres, child, stopped, spawn, code, termsig, nchildren,
                   stops, prog, spawns, exits>>

\* waitpid() reports the exit of the child, with the low 8 bits of its code
WaitExited == child = "exited" /\ ParentTurn(Exited(ExitStatus(code)))
\* waitpid() reports that a signal killed the child
WaitSignaled == child = "signaled" /\ ParentTurn(Signaled(termsig))
\* waitpid() reports a stop of the child
WaitStopped == Alive /\ pendingStop /\ ParentTurn(Stopped)
\* waitpid() fails: interrupted while it blocks on the running child
WaitInterrupted == Alive /\ ParentTurn(WaitErr(EINTR))
\* waitpid() fails: the terminated child is not there to wait for (SIGCHLD
\* is ignored, or another thread reaped it)
WaitNoChild == Terminated /\ ParentTurn(WaitErr(ECHILD))

\* the dispatched program finishes, whenever it does; nothing waits for it
ProgExit ==
    /\ prog = "running"
    /\ prog' = "done"
    /\ UNCHANGED <<parent, forkres, child, stopped, pendingStop, spawn, code,
                   termsig, ws, result, waits, others, decodes, nchildren,
                   stops, spawns, exits, returns>>

Next ==
    \/ ForkSucceeds
    \/ ForkFails
    \/ ChildSpawn
    \/ ChildExit
    \/ ChildKilled
    \/ ChildStop
    \/ ChildCont
    \/ WaitExited
    \/ WaitSignaled
    \/ WaitStopped
    \/ WaitInterrupted
    \/ WaitNoChild
    \/ ProgExit

Spec == Init /\ [][Next]_vars

\* Fair scheduling: a runnable child takes its next step, a stopped child
\* is resumed, and a waitpid() on a terminated child returns. Nothing is
\* assumed of the dispatched program: it may run forever.
FairSpec ==
    /\ Spec
    /\ WF_vars(ChildSpawn)
    /\ WF_vars(ChildExit)
    /\ WF_vars(ChildCont)
    /\ WF_vars(WaitExited)
    /\ WF_vars(WaitSignaled)

----------------------------------------------------------------------------
\* The decode step on its own: Into<nix::Result<()>> applied to every code
\* of -MaxNegCode..MaxCode, held in ws as the code of an Exited status.

DecodeInit ==
    /\ parent = "decode"
    /\ \E ec \in (0 - MaxNegCode)..MaxCode : ws = Exited(ec)
    /\ forkres = NoFork
    /\ child = "none"
    /\ stopped = FALSE
    /\ pendingStop = FALSE
    /\ spawn = SpawnPending
    /\ code = 0
    /\ termsig = 0
    /\ result = NoResult
    /\ waits = 0
    /\ others = 0
    /\ decodes = 0
    /\ nchildren = 0
    /\ stops = 0
    /\ prog = "none"
    /\ spawns = 0
    /\ exits = 0
    /\ returns = 0

DecodeStep ==
    /\ parent = "decode"
    /\ result' = IntoResult(ExitProtocol(ws.v))
    /\ decodes' = decodes + 1
    /\ parent' = "decoded"
    /\ UNCHANGED <<forkres, child, stopped, pendingStop, spawn, code, termsig,
                   ws, waits, others, nchildren, stops, prog, spawns, exits,
                   returns>>

DecodeNext == DecodeStep

DecodeSpec == DecodeInit /\ [][DecodeNext]_vars

----------------------------------------------------------------------------
\* Properties.

ForkSucceeded == forkres = ForkParent
Returned == parent = "returned"
\* no waitpid() call of the parent has failed
NoWaitFailed == ws.kind # "Err"

C5_Signaled ==
    ws.kind = "Signaled" =>
        /\ ws.v \in Signals
        /\ Returned
        /\ result = ErrSys(EINTR)
        /\ decodes = 0

\* a signal killed the child after its spawn succeeded, and dispatch returned
C5_Witness ==
    /\ ws.kind = "Signaled"
    /\ spawn.tag = "Ok"
    /\ Returned

\* the result the first terminal value w of waitpid() determines
TerminalResult(w) ==
    CASE w.kind = "Exited" ->
            IF w.v = 0 THEN Ok
            ELSE IF w.v \in PlatformErrnos THEN ErrSys(w.v)
            ELSE ErrSys(UnknownErrno)
      [] w.kind = "Signaled" -> ErrSys(EINTR)
      [] w.kind = "Err" -> ErrSys(w.v)
      [] OTHER -> NoResult

\* C6: a wait that reports a non-terminal status produces no result and
\* leaves the parent waiting; a wait that reports an exit, a signal or an
\* error ends the call with the result of that value alone, however many
\* non-terminal statuses came before; nothing changes it afterwards.
C6_SkipNonTerminal ==
    [][ /\ (waits' # waits) =>
              IF ws'.kind = "Stopped"
              THEN parent' = "wait" /\ result' = NoResult /\ others' = others + 1
              ELSE /\ parent' = "returned"
                   /\ result' = TerminalResult(ws')
                   /\ others' = others
        /\ Returned => UNCHANGED <<result, ws, waits, others>> ]_vars

\* dispatch returned the decoded exit code after skipping two stops
C6_Witness ==
    /\ Returned
    /\ others = 2
    /\ ws.kind = "Exited"
    /\ result = TerminalResult(ws)

\* C7: when dispatch has returned after a successful fork, the parent has
\* observed the exit of the child or its death by a signal (or the
\* interruption standing for it), and the child is not still about to spawn.
C7_ResultGuarantee_AsStated ==
    (Returned /\ ForkSucceeded) =>
        /\ ws.kind \in {"Exited", "Signaled"} \/ ws = WaitErr(EINTR)
        /\ child # "forked"

\* C8: a call whose fork succeeded has created exactly one process, and
\* that process has terminated in every state where dispatch has returned.
C8_SideEffects_AsStated ==
    /\ nchildren <= 1
    /\ ForkSucceeded => nchildren = 1
    /\ (Returned /\ ForkSucceeded) => Terminated

\* C9: when fork fails, dispatch has returned the error of fork, no child
\* exists, spawn was not attempted and waitpid() was not called.
C9_ForkFailure ==
    forkres.kind = "Err" =>
        /\ Returned
        /\ result = ErrSys(forkres.v)
        /\ child = "none" /\ nchildren = 0
        /\ spawn = SpawnPending
        /\ waits = 0 /\ ws = NoWait

\* fork failed with ENOMEM
C9_Witness ==
    /\ forkres = ForkErr(12)
    /\ Returned

\* C10: a wait that fails ends the call with that error, unchanged, and no
\* wait follows it; the parent is still waiting after a wait only when that
\* wait reported a non-terminal status.
C10_WaitFailure ==
    [][ /\ (waits' # waits) =>
              /\ ws'.kind = "Err" => (parent' = "returned" /\ result' = ErrSys(ws'.v))
              /\ parent' = "wait" => ws'.kind = "Stopped"
        /\ ws.kind = "Err" => (waits' = waits /\ result' = result) ]_vars

\* the first wait failed with EINTR while the child was running, and
\* dispatch returned EINTR
C10_Witness ==
    /\ ws = WaitErr(EINTR)
    /\ waits = 1
    /\ Returned
    /\ result = ErrSys(EINTR)

\* C11: under fair scheduling, once fork has succeeded dispatch eventually
\* returns; the dispatched program is not assumed to terminate, so the
\* return does not depend on its completion.
C11_NoHang == ForkSucceeded ~> Returned

\* dispatch returned Ok while the dispatched program is still running
C11_Witness ==
    /\ Returned /\ ForkSucceeded
    /\ child = "exited"
    /\ prog = "running"
    /\ result = Ok

\* C12 as stated: every code the child passes to process::exit is within
\* 0..255.
C12_ExitCodeRange_AsStated ==
    exits > 0 => code \in 0..255

\* C12 amended: the code the child passes to process::exit is 0 on the
\* success branch and the error number, within 1..255, for a spawn error
\* that carries one; for a spawn error without error number it is -1,
\* outside 0..255, which the platform delivers as 255.
C12_ExitCodeRange ==
    exits > 0 =>
        /\ spawn.tag = "Ok" => code = 0
        /\ (spawn.tag = "Err" /\ spawn.raw # None)
              => (code = spawn.raw[1] /\ code \in 1..255)
        /\ spawn = SpawnErr(None) => (code = -1 /\ ExitStatus(code) = 255)
        /\ (code \notin 0..255) <=> (spawn = SpawnErr(None))
        /\ ExitStatus(code) \in 0..255

\* the child exited on a spawn error without error number
C12_Witness ==
    /\ exits = 1 /\ child = "exited"
    /\ spawn = SpawnErr(None)
    /\ code = -1

\* C13: the child never returns to the caller: it makes one spawn attempt
\* and then exits, on the success and on the failure branch, and does
\* nothing after that; dispatch returns at most once, and the return is the
\* parent's.
C13_ChildNeverReturns ==
    /\ [](/\ child # "returned"
          /\ spawns <= 1 /\ exits <= 1
          /\ child = "exited" => (spawns = 1 /\ exits = 1)
          /\ returns <= 1
          /\ (returns = 1) <=> Returned)
    /\ [][ /\ child = "spawned" => child' \in {"spawned", "exited", "signaled"}
           /\ child = "exited" => UNCHANGED <<child, code, spawn, spawns, exits>> ]_vars

\* the child exited on the failure branch and the parent alone returned
C13_Witness ==
    /\ child = "exited" /\ spawn.tag = "Err"
    /\ exits = 1 /\ spawns = 1
    /\ Returned /\ returns = 1

\* C14: fork precedes the child's spawn attempt and the parent's first
\* wait, and when the parent decodes an exit code the child has made its
\* spawn attempt and has exited.
C14_Ordering ==
    /\ []((spawns > 0 \/ waits > 0) => (ForkSucceeded /\ nchildren = 1))
    /\ [][ /\ (spawns' # spawns \/ waits' # waits) => ForkSucceeded
           /\ (decodes' # decodes) =>
                 (child = "exited" /\ spawn # SpawnPending /\ spawns = 1 /\ exits = 1) ]_vars

\* the parent decoded the code of the exited child
C14_Witness ==
    /\ decodes = 1
    /\ child = "exited" /\ spawns = 1
    /\ Returned

C16_SoleChannel ==
    (Returned /\ ForkSucceeded) =>
        /\ waits = others + 1
        /\ result = TerminalResult(ws)

\* the spawn succeeded, yet the wait results alone (a failed wait) fixed the result
C16_Witness ==
    /\ Returned /\ ForkSucceeded
    /\ spawn = SpawnOk /\ child = "exited" /\ code = 0
    /\ ws = WaitErr(ECHILD)
    /\ result = ErrSys(ECHILD)

====
